---- MODULE Spec2Model ----
(***************************************************************************)
(* State-machine model of the twitch.js Client (src/src/client/Client.js)  *)
(* together with the collaborators it drives: the channel collection (the  *)
(* Room Store), the per-channel message cache, the sweep timer and the     *)
(* SLEEPT session manager.  Collaborators whose code is not part of the    *)
(* sources are modelled from the written specification and are marked so   *)
(* in the model map.                                                       *)
(***************************************************************************)
EXTENDS Integers, Sequences, FiniteSets, TLC

VARIABLES
    defaultOptions, \* constants.defaultOptions (fixed for a run)
    clientState,    \* "new" | "constructed" | "threw"
    options,        \* this.options, the merged options object
    channels,       \* this.channels: key -> Room
    getOverridden,  \* whether this.channels.get was re-bound (line 101)
    sweepTimer,     \* the interval started at line 120
    timerFires,     \* number of timer-driven sweepMessages calls
    sleeptCreated,  \* whether this.sleept was constructed (line 128)
    now,            \* Date.now(), in milliseconds
    session,        \* the SLEEPT session
    last            \* the last operation and what it produced

vars == <<defaultOptions, clientState, options, channels, getOverridden,
          sweepTimer, timerFires, sleeptCreated, now, session, last>>

----------------------------------------------------------------------------
(* Bounds of the model *)

MaxTicks == 4
TickMs == 500
MaxFires == 4
MaxLifetime == 2
MaxInterval == 1
MaxDefault == 1
MaxRetry == 1

----------------------------------------------------------------------------
(* JavaScript values of the options *)

Num(n) == [t |-> "number", v |-> n]
Absent == [t |-> "absent", v |-> 0]
NaNValue == [t |-> "NaN", v |-> 0]
StringValue == [t |-> "string", v |-> 0]

\* typeof x !== 'number' || isNaN(x)
NotANumber(x) == x.t # "number"

\* a JavaScript relational comparison with a number: false unless x is one
GreaterThan(x, n) == x.t = "number" /\ x.v > n
AtMost(x, n) == x.t = "number" /\ x.v <= n

ArrayOf(s) == [t |-> "array", v |-> s]
NullValue == [t |-> "null", v |-> <<>>]
NotArray == [t |-> "string", v |-> <<>>]
NoChannels == [t |-> "absent", v |-> <<>>]

Bool(b) == [t |-> "boolean", v |-> IF b THEN 1 ELSE 0]

\* x is truthy (undefined, null, NaN, 0 and false are not)
Truthy(x) ==
    CASE x.t \in {"absent", "null", "NaN"} -> FALSE
      [] x.t \in {"number", "boolean"} -> x.v # 0
      [] OTHER -> TRUE
\* x instanceof Array
IsArray(x) == x.t = "array"

----------------------------------------------------------------------------
(* Strings as sequences of characters *)

\* String.prototype.slice(from, to) with from >= 0; a negative to counts from the end
Slice(s, from, to) ==
    LET end == IF to < 0 THEN Len(s) + to ELSE IF to > Len(s) THEN Len(s) ELSE to
    IN IF end <= from THEN <<>> ELSE SubSeq(s, from + 1, end)

\* String.prototype.indexOf(c): 0-based position of the first c, or -1
IndexOf(s, c) ==
    IF \E i \in 1..Len(s) : s[i] = c
    THEN (CHOOSE i \in 1..Len(s) : s[i] = c /\ \A j \in 1..(i - 1) : s[j] # c) - 1
    ELSE -1

\* lines 97-99 and 102-104: enforce the '#' prefix
Normalize(channelName) ==
    IF Slice(channelName, 0, 1) # <<"#">> THEN <<"#">> \o channelName ELSE channelName

BareNames == {<<"a">>, <<"b">>}
RoomNames == BareNames \cup {<<"#">> \o n : n \in BareNames}

----------------------------------------------------------------------------
(* Options *)

MsPerSecond == 1000

OptionNames ==
    {"messageCacheMaxSize", "messageCacheLifetime", "messageSweepInterval",
     "fetchAllChatters", "disabledEvents", "retryLimit", "autoLogEnd",
     "channels", "debug", "connectedChannels"}

\* constants.defaultOptions; the retention defaults are not known from the
\* sources, so a run fixes them to some values of 0..MaxDefault
DefaultOptions(lifetime, interval) ==
    [messageCacheMaxSize |-> Num(200),
     messageCacheLifetime |-> Num(lifetime),
     messageSweepInterval |-> Num(interval),
     fetchAllChatters |-> Bool(FALSE),
     disabledEvents |-> ArrayOf(<<>>),
     retryLimit |-> Num(MaxRetry),
     autoLogEnd |-> Bool(TRUE),
     channels |-> ArrayOf(<<>>),
     debug |-> Bool(FALSE),
     connectedChannels |-> ArrayOf(<<>>)]

\* the options object of a caller that passes nothing
NoOptions == [k \in OptionNames \cup {"unknownOption"} |-> Absent]

\* Util.mergeDefault(def, given): every key of def that given lacks is set
\* on given, and given is returned (options and this.options are one object)
MergeDefault(def, given) ==
    [k \in DOMAIN given |->
        IF k \in DOMAIN def /\ given[k].t = "absent" THEN def[k] ELSE given[k]]

\* Object.keys(options)
OptionKeys(o) == {k \in DOMAIN o : o[k].t # "absent"}

\* lines 290-327: TRUE when _validateOptions throws
validateOptionsMissingLifetime(o) ==
    \/ NotANumber(o.messageCacheMaxSize)
    \/ NotANumber(o.messageSweepInterval)
    \/ o.fetchAllChatters.t # "boolean"
    \/ Truthy(o.disabledEvents) /\ ~IsArray(o.disabledEvents)
    \/ NotANumber(o.retryLimit)
    \/ Truthy(o.autoLogEnd) /\ o.autoLogEnd.t # "boolean"
    \/ Truthy(o.channels) /\ ~IsArray(o.channels)
    \/ Truthy(o.debug) /\ o.debug.t # "boolean"
    \/ Truthy(o.connectedChannels) /\ ~IsArray(o.channels)
         /\ Len(o.connectedChannels.v) > 0
    \/ \E k \in OptionKeys(o) : k \notin DOMAIN defaultOptions

validateOptions(o) ==
    \/ NotANumber(o.messageCacheMaxSize)
    \/ NotANumber(o.messageCacheLifetime)
    \/ NotANumber(o.messageSweepInterval)
    \/ o.fetchAllChatters.t # "boolean"
    \/ Truthy(o.disabledEvents) /\ ~IsArray(o.disabledEvents)
    \/ NotANumber(o.retryLimit)
    \/ Truthy(o.autoLogEnd) /\ o.autoLogEnd.t # "boolean"
    \/ Truthy(o.channels) /\ ~IsArray(o.channels)
    \/ Truthy(o.debug) /\ o.debug.t # "boolean"
    \/ Truthy(o.connectedChannels) /\ ~IsArray(o.channels)
         /\ Len(o.connectedChannels.v) > 0
    \/ \E k \in OptionKeys(o) : k \notin DOMAIN defaultOptions

----------------------------------------------------------------------------
(* Rooms *)

\* new channel(this, { channel: channelName }); hasMessages tells whether the
\* structure carries a message cache (line 267 allows for one that does not)
NewChannel(channelName, hasMessages) ==
    [name |-> channelName, users |-> {}, messages |-> {}, hasMessages |-> hasMessages]

\* lines 96-100: the collection after the first n names were set
RECURSIVE ChannelsAfter(_, _, _)
ChannelsAfter(names, n, hasMessages) ==
    IF n = 0 THEN <<>>
    ELSE LET before == ChannelsAfter(names, n - 1, hasMessages)
             key == Normalize(names[n])
         IN [k \in DOMAIN before \cup {key} |->
                IF k = key THEN NewChannel(key, hasMessages) ELSE before[k]]

\* line 101: the lookup is re-bound inside the forEach, once per listed name
GetOverriddenBy(names) == Len(names) > 0

\* line 119
SweepTimerEnabled(o) == GreaterThan(o.messageSweepInterval, 0)

\* line 120: the period handed to setInterval, in milliseconds
SweepTimerPeriodUnscaled(o) == o.messageSweepInterval.v

SweepTimerPeriod(o) == o.messageSweepInterval.v * MsPerSecond

NoTimer == [active |-> FALSE, periodMs |-> 0, start |-> 0, nextFire |-> 0]

\* the capacity of the token bucket of the outbound command queue
BucketCapacity == 20

\* a session before login(): nothing pending, nothing queued, a full bucket
NoSession ==
    [state |-> "Disconnected", transportOpen |-> FALSE, retries |-> 0,
     backoff |-> FALSE, reconnecting |-> FALSE, pending |-> {},
     pendingDisconnects |-> 0, shutdown |-> FALSE, callers |-> <<>>,
     queue |-> <<>>, enqueued |-> 0, tokens |-> BucketCapacity,
     refilled |-> FALSE]

Last(op, arg, ret, thrown, emitted, predEvals) ==
    [op |-> op, arg |-> arg, ret |-> ret, thrown |-> thrown,
     emitted |-> emitted, predEvals |-> predEvals]

----------------------------------------------------------------------------
(* The constructor, lines 21-137 *)

NewClient(given, hasMessages) ==
    /\ clientState = "new"
    /\ LET merged == MergeDefault(defaultOptions, given)            \* line 27
           threw == \/ validateOptions(merged)                      \* line 28
                    \/ ~IsArray(merged.channels)                    \* line 96
       IN /\ options' = merged
          /\ clientState' = IF threw THEN "threw" ELSE "constructed"
          /\ channels' = IF threw THEN channels
                         ELSE ChannelsAfter(merged.channels.v,
                                            Len(merged.channels.v), hasMessages)
          /\ getOverridden' = (~threw /\ GetOverriddenBy(merged.channels.v))
          /\ sweepTimer' = IF ~threw /\ SweepTimerEnabled(merged)
                           THEN [active |-> TRUE,
                                 periodMs |-> SweepTimerPeriod(merged),
                                 start |-> now,
                                 nextFire |-> now + SweepTimerPeriod(merged)]
                           ELSE sweepTimer
          /\ sleeptCreated' = ~threw                                \* line 128
          /\ last' = Last("NewClient", 0, 0, threw, <<>>, 0)
    /\ UNCHANGED <<defaultOptions, timerFires, now, session>>

Init ==
    /\ defaultOptions \in {DefaultOptions(l, i) : l \in 0..MaxDefault, i \in 0..MaxDefault}
    /\ clientState = "new"
    /\ options = NoOptions
    /\ channels = <<>>
    /\ getOverridden = FALSE
    /\ sweepTimer = NoTimer
    /\ timerFires = 0
    /\ sleeptCreated = FALSE
    /\ now = 0
    /\ session = NoSession
    /\ last = Last("none", 0, 0, FALSE, <<>>, 0)

----------------------------------------------------------------------------
(* The message caches and the sweep, lines 254-275 *)

MessageIds == {"m1", "m2"}

\* null, for a message that was never edited
NotEdited == -1

\* line 270 with = in place of +=: the count of one channel
SumOfOne(f, S) == IF S = {} THEN 0 ELSE f[CHOOSE y \in S : TRUE]

RECURSIVE Sum(_, _)
Sum(f, S) ==
    IF S = {} THEN 0
    ELSE LET x == CHOOSE y \in S : TRUE IN f[x] + Sum(f, S \ {x})

\* the ids of the messages held by any cache
CachedIds == UNION {{m.id : m \in channels[k].messages} : k \in DOMAIN channels}

\* line 256
SweepDisabledNegativeOnly(lifetime) == lifetime < 0

SweepDisabled(lifetime) == lifetime <= 0

\* line 270: the predicate handed to channel.messages.sweep
SweepPredicateInverted(message, nowMs, lifetimeMs) ==
    nowMs - message.createdTimestamp < lifetimeMs

SweepPredicate(message, nowMs, lifetimeMs) ==
    nowMs - message.createdTimestamp > lifetimeMs

\* collection.sweep(fn): the entries fn holds of, which it removes and counts
SweepOf(messages, nowMs, lifetimeMs) ==
    {m \in messages : SweepPredicate(m, nowMs, lifetimeMs)}

\* line 267: channels without a message cache are skipped
SweptChannels == {k \in DOMAIN channels : channels[k].hasMessages}

\* the effect of sweepMessages(lifetime) on the caches and on `last`
SweepEffect(op, lifetime) ==
    IF SweepDisabled(lifetime)
    THEN /\ channels' = channels
         /\ last' = Last(op, lifetime, -1, FALSE, <<>>, 0)                \* line 258
    ELSE LET lifetimeMs == lifetime * MsPerSecond                        \* line 261
             removed == [k \in SweptChannels |->
                           SweepOf(channels[k].messages, now, lifetimeMs)]
             count == [k \in SweptChannels |-> Cardinality(removed[k])]
             seen == [k \in SweptChannels |-> Cardinality(channels[k].messages)]
         IN /\ channels' = [k \in DOMAIN channels |->
                              IF k \in SweptChannels
                              THEN [channels[k] EXCEPT !.messages = @ \ removed[k]]
                              ELSE channels[k]]
            /\ last' = Last(op, lifetime, Sum(count, SweptChannels), FALSE, <<>>,
                            Sum(seen, SweptChannels))

\* a caller's sweepMessages(lifetime) with a numeric lifetime
sweepMessages(lifetime) ==
    /\ clientState = "constructed"
    /\ SweepEffect("sweepMessages", lifetime)
    /\ UNCHANGED <<defaultOptions, clientState, options, getOverridden, sweepTimer,
                   timerFires, sleeptCreated, now, session>>

\* the interval of line 120 fires: sweepMessages() with the default lifetime
TimerFire ==
    /\ clientState = "constructed"
    /\ sweepTimer.active
    /\ sweepTimer.nextFire <= now
    /\ timerFires < MaxFires
    /\ SweepEffect("timerSweep", options.messageCacheLifetime.v)
    /\ timerFires' = timerFires + 1
    /\ sweepTimer' = [sweepTimer EXCEPT !.nextFire = @ + sweepTimer.periodMs]
    /\ UNCHANGED <<defaultOptions, clientState, options, getOverridden,
                   sleeptCreated, now, session>>

\* time passes; an interval that is due fires before more time passes
Tick ==
    /\ now < MaxTicks * TickMs
    /\ ~(sweepTimer.active /\ sweepTimer.nextFire <= now)
    /\ now' = now + TickMs
    /\ last' = Last("Tick", 0, 0, FALSE, <<>>, 0)
    /\ UNCHANGED <<defaultOptions, clientState, options, channels, getOverridden,
                   sweepTimer, timerFires, sleeptCreated, session>>

\* a message enters the cache of a channel, stamped with the current time
messagesSet(k, id) ==
    /\ clientState = "constructed"
    /\ k \in SweptChannels
    /\ id \notin CachedIds
    /\ channels' = [channels EXCEPT ![k].messages = @ \cup
                       {[id |-> id, createdTimestamp |-> now, editedTimestamp |-> NotEdited]}]
    /\ last' = Last("messagesSet", id, 0, FALSE, <<>>, 0)
    /\ UNCHANGED <<defaultOptions, clientState, options, getOverridden, sweepTimer,
                   timerFires, sleeptCreated, now, session>>

\* a cached message is edited: its edit timestamp becomes the current time
messageEdit(k, id) ==
    /\ clientState = "constructed"
    /\ k \in SweptChannels
    /\ \E m \in channels[k].messages :
          /\ m.id = id
          /\ m.editedTimestamp # now
          /\ channels' = [channels EXCEPT ![k].messages =
                             (@ \ {m}) \cup {[m EXCEPT !.editedTimestamp = now]}]
    /\ last' = Last("messageEdit", id, 0, FALSE, <<>>, 0)
    /\ UNCHANGED <<defaultOptions, clientState, options, getOverridden, sweepTimer,
                   timerFires, sleeptCreated, now, session>>

----------------------------------------------------------------------------
(* The SLEEPT session manager, driven through lines 163-189 and 281-283 *)

MaxCalls == 2

Unchanged_client ==
    UNCHANGED <<defaultOptions, clientState, options, channels, getOverridden,
                sweepTimer, timerFires, sleeptCreated, now>>

\* sleept.methods.login: Disconnected -> Connecting, the transport is being opened
SleeptLogin ==
    /\ session.state = "Disconnected"
    /\ session' = [session EXCEPT !.state = "Connecting", !.retries = 0,
                                  !.reconnecting = FALSE, !.shutdown = FALSE,
                                  !.pending = @ \cup {<<"login">>}]

\* sleept.methods.disconnect: any state -> Disconnected; the transport is
\* closed, a scheduled backoff is cancelled, pending requests are cancelled
\* and the commands queued for the closed connection go with it
SleeptDisconnect ==
    session' = [session EXCEPT !.state = "Disconnected", !.transportOpen = FALSE,
                               !.backoff = FALSE, !.reconnecting = FALSE,
                               !.retries = 0, !.pending = {}, !.callers = <<>>,
                               !.queue = <<>>, !.shutdown = TRUE,
                               !.pendingDisconnects = @ + 1]

\* what a disconnect() call reports: the state it was called in and the
\* pending requests it resolved as cancelled
DisconnectReport == [from |-> session.state, cancelled |-> session.pending]

\* lines 163-165
login ==
    /\ clientState = "constructed"
    /\ SleeptLogin
    /\ last' = Last("login", 0, 0, FALSE, <<>>, 0)
    /\ Unchanged_client

\* lines 281-283 with the delegation left out: a promise and nothing else
disconnectWithoutDelegation ==
    /\ clientState = "constructed"
    /\ session.pendingDisconnects < MaxCalls
    /\ session' = [session EXCEPT !.pendingDisconnects = @ + 1]
    /\ last' = Last("disconnect", DisconnectReport, 0, FALSE, <<>>, 0)
    /\ Unchanged_client

\* lines 281-283
disconnect ==
    /\ clientState = "constructed"
    /\ session.pendingDisconnects < MaxCalls
    /\ SleeptDisconnect
    /\ last' = Last("disconnect", DisconnectReport, 0, FALSE, <<>>, 0)
    /\ Unchanged_client

\* the promise of a disconnect() call resolves
disconnectResolved ==
    /\ session.pendingDisconnects > 0
    /\ session' = [session EXCEPT !.pendingDisconnects = @ - 1]
    /\ last' = Last("disconnectResolved", 0, 0, FALSE, <<>>, 0)
    /\ Unchanged_client

\* Connecting --transport open--> Authenticating
transportOpened ==
    /\ session.state = "Connecting"
    /\ session' = [session EXCEPT !.state = "Authenticating", !.transportOpen = TRUE]
    /\ last' = Last("transportOpened", 0, 0, FALSE, <<>>, 0)
    /\ Unchanged_client

\* the transport cannot be opened: a first attempt fails the login, an
\* attempt of a reconnection goes back to Reconnecting and its backoff
transportFailed ==
    /\ session.state = "Connecting"
    /\ session' = IF session.reconnecting
                  THEN [session EXCEPT !.state = "Reconnecting", !.backoff = TRUE]
                  ELSE [session EXCEPT !.state = "Disconnected",
                                       !.pending = @ \ {<<"login">>}]
    /\ last' = Last("transportFailed", 0, 0, ~session.reconnecting, <<>>, 0)
    /\ Unchanged_client

\* Authenticating --success reply--> Ready
authSucceeded ==
    /\ session.state = "Authenticating"
    /\ session' = [session EXCEPT !.state = "Ready", !.retries = 0,
                                  !.reconnecting = FALSE,
                                  !.pending = @ \ {<<"login">>}]
    /\ last' = Last("authSucceeded", 0, 0, FALSE, <<>>, 0)
    /\ Unchanged_client

\* Authenticating --error reply or timeout--> Disconnected, no reconnection
authFailed ==
    /\ session.state = "Authenticating"
    /\ session' = [session EXCEPT !.state = "Disconnected", !.transportOpen = FALSE,
                                  !.reconnecting = FALSE,
                                  !.pending = @ \ {<<"login">>}]
    /\ last' = Last("authFailed", 0, 0, TRUE, <<>>, 0)
    /\ Unchanged_client

\* Ready --transport closed/error--> Reconnecting, a backoff is scheduled
transportClosed ==
    /\ session.state = "Ready"
    /\ session' = [session EXCEPT !.state = "Reconnecting", !.transportOpen = FALSE,
                                  !.reconnecting = TRUE, !.retries = 0,
                                  !.backoff = TRUE]
    /\ last' = Last("transportClosed", 0, 0, FALSE, <<>>, 0)
    /\ Unchanged_client

\* the retry limit allows one more attempt, with every attempt allowed
RetriesLeftUnbounded == TRUE

\* the retry limit allows one more attempt
RetriesLeft == session.retries < options.retryLimit.v

\* the backoff delay elapses: another attempt, or, when the retry limit is
\* used up, Disconnected: the pending requests are rejected with
\* RetriesExhausted and one disconnect event is emitted
backoffElapsed ==
    /\ session.state = "Reconnecting"
    /\ session.backoff
    /\ session.retries < MaxRetry + 1
    /\ IF RetriesLeft
       THEN /\ session' = [session EXCEPT !.state = "Connecting", !.backoff = FALSE,
                                          !.retries = @ + 1]
            /\ last' = Last("backoffElapsed", [rejected |-> {}, error |-> "none"],
                            0, FALSE, <<>>, 0)
       ELSE /\ session' = [session EXCEPT !.state = "Disconnected", !.backoff = FALSE,
                                          !.reconnecting = FALSE, !.pending = {},
                                          !.callers = <<>>, !.queue = <<>>]
            /\ last' = Last("backoffElapsed",
                            [rejected |-> session.pending, error |-> "RetriesExhausted"],
                            0, TRUE,
                            <<[event |-> "disconnect",
                               payload |-> <<"retries-exhausted">>]>>, 0)
    /\ Unchanged_client

----------------------------------------------------------------------------
(* The Room Store: this.channels, its lookup, and the room operations *)

\* undefined
Undefined == <<>>

\* lines 101-106 once re-bound, the collection's own keyed get otherwise;
\* the result is the key of the Room found, or Undefined
channelsGet(channelName) ==
    IF getOverridden
    THEN LET wanted == Normalize(channelName)                     \* lines 102-104
             found == {k \in DOMAIN channels : channels[k].name = wanted}
         IN IF found = {} THEN Undefined ELSE CHOOSE k \in found : TRUE
    ELSE IF channelName \in DOMAIN channels THEN channelName ELSE Undefined

\* channel.users.get(id): the User of that id, or Undefined
usersGet(k, id) == IF id \in channels[k].users THEN id ELSE Undefined

\* an outbound command: a room command carries its room, a raw line its
\* sequence number
Command(kind, room, seq) == [kind |-> kind, room |-> room, seq |-> seq]

\* the wire command of a pending room request
CommandOf(key) == Command(key[1], key[2], 0)

\* the commands of the queue, as a set
Queued == {session.queue[i] : i \in DOMAIN session.queue}

\* the pending-request table without one key
WithoutKey(key) ==
    [session EXCEPT !.pending = @ \ {key},
                    !.callers = [x \in DOMAIN @ \ {key} |-> @[x]]]

\* a room request whose key is already pending, with the attachment left
\* out: a duplicate wire command is issued
AttachDuplicating(key) ==
    [session EXCEPT !.callers[key] = @ + 1,
                    !.queue = Append(@, CommandOf(key))]

\* a room request whose key is already pending attaches to the pending
\* future: one more waiting caller, no wire command
Attach(key) == [session EXCEPT !.callers[key] = @ + 1]

\* a room request whose key is not pending: one wire command is enqueued
Issue(key) ==
    [session EXCEPT !.pending = @ \cup {key},
                    !.callers = [x \in DOMAIN @ \cup {key} |->
                                    IF x = key THEN 1 ELSE @[x]],
                    !.queue = Append(@, CommandOf(key))]

\* what a room request reports: the name it was called with and its error
RoomReport(channelName, error) == [name |-> channelName, error |-> error]

\* a room request is only valid in Ready, with the state left unchecked
RequestAllowedAnywhere == TRUE

\* a room request is only valid in Ready
RequestAllowed == session.state = "Ready"

\* sleept.methods.join and sleept.methods.leave: single-flight per
\* normalized room in Ready, NotConnected in every other state; ret is the
\* number of wire commands the call issued
SleeptRequest(op, channelName) ==
    LET key == <<op, Normalize(channelName)>>
    IN IF RequestAllowed
       THEN IF key \in session.pending
            THEN /\ session.callers[key] < MaxCalls
                 /\ session' = Attach(key)
                 /\ last' = Last(op, RoomReport(channelName, "none"), 0, FALSE, <<>>, 0)
            ELSE /\ session' = Issue(key)
                 /\ last' = Last(op, RoomReport(channelName, "none"), 1, FALSE, <<>>, 0)
       ELSE /\ session' = session
            /\ last' = Last(op, RoomReport(channelName, "NotConnected"), 0, TRUE, <<>>, 0)

\* sleept.methods.join
SleeptJoin(channelName) == SleeptRequest("join", channelName)

\* sleept.methods.leave
SleeptLeave(channelName) == SleeptRequest("leave", channelName)

\* lines 175-177
join(channelName) ==
    /\ clientState = "constructed"
    /\ SleeptJoin(channelName)
    /\ Unchanged_client

\* what the echo of a room request reports: the key, the number of waiting
\* callers it resolved and the one result they all received
ReplyReport(key, result) ==
    [key |-> key, resolved |-> session.callers[key], result |-> result]

\* the echo of a pending join, which can only follow the transmission of its
\* command: upsert(roomId) under the normalized identifier
joinReplied(k, hasMessages) ==
    /\ session.state = "Ready"
    /\ <<"join", k>> \in session.pending
    /\ CommandOf(<<"join", k>>) \notin Queued
    /\ session' = WithoutKey(<<"join", k>>)
    /\ channels' = IF k \in DOMAIN channels THEN channels
                   ELSE [x \in DOMAIN channels \cup {k} |->
                            IF x = k THEN NewChannel(k, hasMessages) ELSE channels[x]]
    /\ last' = Last("joinReplied", ReplyReport(<<"join", k>>, k), 0, FALSE, <<>>, 0)
    /\ UNCHANGED <<defaultOptions, clientState, options, getOverridden, sweepTimer,
                   timerFires, sleeptCreated, now>>

\* lines 187-189
leave(channelName) ==
    /\ clientState = "constructed"
    /\ SleeptLeave(channelName)
    /\ Unchanged_client

\* the echo of a pending leave, which can only follow the transmission of
\* its command: remove(roomId)
leaveReplied(k) ==
    /\ session.state = "Ready"
    /\ <<"leave", k>> \in session.pending
    /\ CommandOf(<<"leave", k>>) \notin Queued
    /\ session' = WithoutKey(<<"leave", k>>)
    /\ channels' = [x \in DOMAIN channels \ {k} |-> channels[x]]
    /\ last' = Last("leaveReplied", ReplyReport(<<"leave", k>>, k), 0, FALSE, <<>>, 0)
    /\ UNCHANGED <<defaultOptions, clientState, options, getOverridden, sweepTimer,
                   timerFires, sleeptCreated, now>>

----------------------------------------------------------------------------
(* The rate-limited command queue *)

\* the number of raw lines a run sends
MaxSends == 25

\* sleept.methods.sendRawMessage: send(command) enqueues at the tail
SleeptSendRawMessage ==
    session' = [session EXCEPT !.enqueued = @ + 1,
                               !.queue = Append(@, Command("raw", <<>>, session.enqueued + 1))]

\* lines 132-136: this.ws.send
wsSend ==
    /\ clientState = "constructed"
    /\ session.enqueued < MaxSends
    /\ SleeptSendRawMessage
    /\ last' = Last("wsSend", session.enqueued + 1, 0, FALSE, <<>>, 0)
    /\ Unchanged_client

\* the dispatcher may write: the transport is open and the queue not empty,
\* with the bucket left unchecked
MayTransmitWithoutToken ==
    /\ session.transportOpen
    /\ session.queue # <<>>

\* the dispatcher may write: the transport is open, the queue not empty and
\* a token available
MayTransmit ==
    /\ session.transportOpen
    /\ session.queue # <<>>
    /\ session.tokens > 0

\* the command the dispatcher takes, taken from the tail
NextCommandNewest == session.queue[Len(session.queue)]

\* the command the dispatcher takes: the head of the queue
NextCommand == Head(session.queue)

\* the queue without the command the dispatcher took
QueueWithout(cmd) ==
    LET i == CHOOSE j \in DOMAIN session.queue : session.queue[j] = cmd
    IN SubSeq(session.queue, 1, i - 1) \o SubSeq(session.queue, i + 1, Len(session.queue))

\* the dispatcher writes one command to the transport for one token
transmit ==
    /\ MayTransmit
    /\ session' = [session EXCEPT !.queue = QueueWithout(NextCommand),
                                  !.tokens = IF @ > 0 THEN @ - 1 ELSE 0]
    /\ last' = Last("transmit", NextCommand, 0, FALSE, <<>>, 0)
    /\ Unchanged_client

\* the write fails: the command is dropped, not retried, and its pending
\* request, if any, fails with SendFailed
transmitFailed ==
    /\ MayTransmit
    /\ LET cmd == NextCommand
           key == <<cmd.kind, cmd.room>>
           after == IF key \in session.pending THEN WithoutKey(key) ELSE session
       IN /\ session' = [after EXCEPT !.queue = QueueWithout(cmd),
                                      !.tokens = IF @ > 0 THEN @ - 1 ELSE 0]
          /\ last' = Last("transmitFailed", cmd, 0, TRUE, <<>>, 0)
    /\ Unchanged_client

\* the refill interval elapses: one token more, or the bucket full again
refill ==
    /\ session.tokens < BucketCapacity
    /\ \E n \in {session.tokens + 1, BucketCapacity} :
          session' = [session EXCEPT !.tokens = n, !.refilled = TRUE]
    /\ last' = Last("refill", 0, 0, FALSE, <<>>, 0)
    /\ Unchanged_client

\* a membership notification: the user enters the room's user mapping
userJoined(k, id) ==
    /\ clientState = "constructed"
    /\ k \in DOMAIN channels
    /\ id \notin channels[k].users
    /\ channels' = [channels EXCEPT ![k].users = @ \cup {id}]
    /\ last' = Last("userJoined", id, 0, FALSE, <<>>, 0)
    /\ UNCHANGED <<defaultOptions, clientState, options, getOverridden, sweepTimer,
                   timerFires, sleeptCreated, now, session>>

----------------------------------------------------------------------------
(* The dispatcher, lines 208-244 *)

\* this.emit(event, payload): one emission
Emission(event, payload) == [event |-> event, payload |-> payload]

\* line 233: the login name, args[0].prefix.slice(0, args[0].prefix.indexOf('!'))
AuthorId(prefix) == Slice(prefix, 0, IndexOf(prefix, "!"))

\* lines 211-235: the emissions of a chat frame whose room was found
EmitMessage(frame, k) ==
    <<Emission("message",
               [content |-> frame.params[2],                           \* line 221
                id |-> frame.tags.id,                                  \* line 231
                channel |-> k,                                         \* line 232
                author |-> usersGet(k, AuthorId(frame.prefix))])>>     \* line 233

\* line 238
EmitReady(args) == <<Emission("ready", SubSeq(args, 1, 2))>>

\* line 241 with the emission left out
EmitDefaultDropped(event, args) == <<>>

\* line 241
EmitDefault(event, args) == <<Emission(event, args)>>

\* lines 208-244; a chat frame for a room that channels.get does not find
\* reads .users of undefined at line 233, which throws a TypeError
eventEmmiter(event, args) ==
    /\ clientState = "constructed"
    /\ LET k == channelsGet(args[1].params[1])
           throws == event = "message" /\ k = Undefined
           emitted == CASE event = "message" ->
                               IF throws THEN <<>> ELSE EmitMessage(args[1], k)
                        [] event = "ready" -> EmitReady(args)
                        [] OTHER -> EmitDefault(event, args)
       IN last' = Last("eventEmmiter", [event |-> event, args |-> args], 0,
                       throws, emitted, 0)
    /\ UNCHANGED <<defaultOptions, clientState, options, channels, getOverridden,
                   sweepTimer, timerFires, sleeptCreated, now, session>>

----------------------------------------------------------------------------
(* Inputs *)

Lifetimes == -1..MaxLifetime

ValidOptions == [NoOptions EXCEPT !.channels = ArrayOf(<<>>)]

ChannelLists ==
    {<<>>, <<<<"a">>>>, <<<<"#", "a">>>>, <<<<"a">>, <<"b">>>>}

\* callers that only list channels
RoomInputs == {[NoOptions EXCEPT !.channels = ArrayOf(c)] : c \in ChannelLists}

NextSweep ==
    \/ \E given \in RoomInputs, hasMessages \in BOOLEAN : NewClient(given, hasMessages)
    \/ \E lifetime \in Lifetimes : sweepMessages(lifetime)
    \/ TimerFire
    \/ Tick
    \/ \E k \in DOMAIN channels, id \in MessageIds : messagesSet(k, id)
    \/ \E k \in DOMAIN channels, id \in MessageIds : messageEdit(k, id)

SpecSweep == Init /\ [][NextSweep]_vars

RetryLimits == 0..MaxRetry

\* callers that set the retry limit
RetryInputs == {[ValidOptions EXCEPT !.retryLimit = Num(r)] : r \in RetryLimits}

NextSession ==
    \/ \E given \in RetryInputs : NewClient(given, TRUE)
    \/ login
    \/ disconnect
    \/ disconnectResolved
    \/ transportOpened
    \/ transportFailed
    \/ authSucceeded
    \/ authFailed
    \/ transportClosed
    \/ backoffElapsed
    \/ \E r \in {<<"a">>, <<"#", "a">>} : join(r)
    \/ TimerFire
    \/ Tick

SpecSession == Init /\ [][NextSession]_vars

UserIds == {<<"u">>}

\* inbound chat frames: one from login u, one with a server prefix without '!'
ChatFrames ==
    {[tags |-> [id |-> "m1"], prefix |-> pt[1], command |-> "PRIVMSG",
      params |-> <<r, pt[2]>>] :
        pt \in {<<<<"u", "!", "u">>, "hello">>, <<<<"t", "m", "i">>, "bye">>},
        r \in RoomNames}

OtherEvents == {"join", "CLEARCHAT"}

OtherArgs == {<<>>, <<CHOOSE f \in ChatFrames : TRUE>>}

ReadyArgs == {<<"irc", 443>>, <<"irc", 443, "x">>}

\* the dispatcher over the rooms of the constructor's list
NextStore ==
    \/ \E given \in RoomInputs, hasMessages \in BOOLEAN : NewClient(given, hasMessages)
    \/ \E r \in RoomNames, u \in UserIds : userJoined(r, u)
    \/ \E f \in ChatFrames : eventEmmiter("message", <<f>>)
    \/ \E a \in ReadyArgs : eventEmmiter("ready", a)
    \/ \E e \in OtherEvents, a \in OtherArgs : eventEmmiter(e, a)

LifetimeValues == {Absent, NaNValue, StringValue} \cup {Num(n) : n \in Lifetimes}

IntervalValues == {Absent, StringValue} \cup {Num(n) : n \in -1..MaxInterval}

RetryValues == {Absent, StringValue} \cup {Num(n) : n \in RetryLimits}

ChannelValues ==
    {NoChannels, NullValue, NotArray, ArrayOf(<<>>), ArrayOf(<<<<"a">>>>)}

\* one option outside the retention, retry and room options is invalid
OtherInvalidOptions ==
    {[ValidOptions EXCEPT !.messageCacheMaxSize = StringValue],
     [ValidOptions EXCEPT !.fetchAllChatters = StringValue],
     [ValidOptions EXCEPT !.disabledEvents = NotArray],
     [ValidOptions EXCEPT !.autoLogEnd = StringValue],
     [ValidOptions EXCEPT !.debug = StringValue],
     [ValidOptions EXCEPT !.connectedChannels = ArrayOf(<<<<"#", "a">>>>),
                          !.channels = NullValue],
     [ValidOptions EXCEPT !.unknownOption = StringValue]}

OptionInputs ==
    {[NoOptions EXCEPT !.messageCacheLifetime = l, !.messageSweepInterval = i,
                       !.retryLimit = r, !.channels = c] :
        l \in LifetimeValues, i \in IntervalValues, r \in RetryValues,
        c \in ChannelValues}
    \cup OtherInvalidOptions

NextOptions ==
    \/ \E given \in OptionInputs : NewClient(given, TRUE)
    \/ login
    \/ transportOpened
    \/ TimerFire
    \/ Tick

SpecOptions == Init /\ [][NextOptions]_vars

\* the store is exercised with the defaults that disable the sweep
InitStore == Init /\ defaultOptions = DefaultOptions(0, 0)

SpecStore == InitStore /\ [][NextStore]_vars

\* the caller's sweeps over rooms that hold users, with no sweep timer
NextSweepCount ==
    \/ \E given \in RoomInputs, hasMessages \in BOOLEAN : NewClient(given, hasMessages)
    \/ \E lifetime \in Lifetimes : sweepMessages(lifetime)
    \/ Tick
    \/ \E k \in DOMAIN channels, id \in MessageIds : messagesSet(k, id)
    \/ \E k \in DOMAIN channels, u \in UserIds : userJoined(k, u)

SpecSweepCount == InitStore /\ [][NextSweepCount]_vars

\* both spellings of one room
OneRoomNames == {<<"a">>, <<"#", "a">>}

\* the requests for one room with the command queue that carries them
NextRooms ==
    \/ \E given \in RoomInputs : NewClient(given, TRUE)
    \/ login
    \/ transportOpened
    \/ authSucceeded
    \/ \E r \in OneRoomNames : join(r)
    \/ \E r \in OneRoomNames : joinReplied(r, TRUE)
    \/ \E r \in OneRoomNames : leave(r)
    \/ \E r \in OneRoomNames : leaveReplied(r)
    \/ transmit
    \/ transmitFailed

SpecRooms == InitStore /\ [][NextRooms]_vars

\* a burst of raw lines through the command queue
NextQueue ==
    \/ NewClient(ValidOptions, TRUE)
    \/ login
    \/ transportOpened
    \/ wsSend
    \/ transmit
    \/ transmitFailed
    \/ refill

SpecQueue == InitStore /\ [][NextQueue]_vars

\* every operation, with every input
Next ==
    \/ \E given \in OptionInputs \cup RoomInputs \cup RetryInputs, hasMessages \in BOOLEAN :
          NewClient(given, hasMessages)
    \/ \E lifetime \in Lifetimes : sweepMessages(lifetime)
    \/ TimerFire
    \/ Tick
    \/ \E k \in DOMAIN channels, id \in MessageIds : messagesSet(k, id)
    \/ \E k \in DOMAIN channels, id \in MessageIds : messageEdit(k, id)
    \/ login
    \/ disconnect
    \/ disconnectResolved
    \/ transportOpened
    \/ transportFailed
    \/ authSucceeded
    \/ authFailed
    \/ transportClosed
    \/ backoffElapsed
    \/ \E r \in RoomNames : join(r)
    \/ \E r \in RoomNames, hasMessages \in BOOLEAN : joinReplied(r, hasMessages)
    \/ \E r \in RoomNames : leave(r)
    \/ \E r \in RoomNames : leaveReplied(r)
    \/ \E r \in RoomNames, u \in UserIds : userJoined(r, u)
    \/ \E f \in ChatFrames : eventEmmiter("message", <<f>>)
    \/ \E a \in ReadyArgs : eventEmmiter("ready", a)
    \/ \E e \in OtherEvents, a \in OtherArgs : eventEmmiter(e, a)
    \/ wsSend
    \/ transmit
    \/ transmitFailed
    \/ refill

Spec == Init /\ [][Next]_vars

----------------------------------------------------------------------------
(* Claims about the sweep *)

\* the edit timestamp when the message has one, else the creation timestamp
EffectiveTimestamp(m) ==
    IF m.editedTimestamp # NotEdited THEN m.editedTimestamp ELSE m.createdTimestamp

SweepRan == last.op \in {"sweepMessages", "timerSweep"}

\* C6: sweepMessages(L) with L > 0 removes a message if and only if
\* now - effectiveTimestamp(m) > L, the effective timestamp being the edit
\* timestamp when there is one; a message created more than L ago but edited
\* within the last L seconds is retained.
C6_SweepUsesEditTimestamp ==
    [][(last'.op \in {"sweepMessages", "timerSweep"} /\ last'.arg > 0) =>
          \A k \in SweptChannels : \A m \in channels[k].messages :
              (m \notin channels'[k].messages) <=>
                  (now - EffectiveTimestamp(m) > last'.arg * MsPerSecond)]_vars

\* C7: right after sweepMessages(L) with L > 0, no message left in any cache
\* has now - effectiveTimestamp > L.
C7_NoStaleMessageAfterSweep ==
    (SweepRan /\ last.arg > 0) =>
        \A k \in DOMAIN channels : \A m \in channels[k].messages :
            now - EffectiveTimestamp(m) <= last.arg * MsPerSecond

\* a sweep with L > 0 removed something and kept an edited message
C7_Witness ==
    /\ SweepRan /\ last.arg > 0 /\ last.ret > 0
    /\ \E k \in DOMAIN channels : \E m \in channels[k].messages :
          m.editedTimestamp # NotEdited /\ m.createdTimestamp < now

\* C8: sweepMessages(L) with L <= 0 returns -1, evaluates the removal
\* predicate on no message and leaves every cache as it was.
C8_UnboundedLifetimeIsNoOp ==
    [][(last'.op \in {"sweepMessages", "timerSweep"} /\ last'.arg <= 0) =>
          /\ last'.ret = -1
          /\ last'.predEvals = 0
          /\ channels' = channels]_vars

\* a sweep with L <= 0 ran over a cache holding a message older than L
C8_Witness ==
    /\ SweepRan /\ last.arg <= 0 /\ last.ret = -1
    /\ \E k \in DOMAIN channels : \E m \in channels[k].messages :
          now - m.createdTimestamp > 0

----------------------------------------------------------------------------
(* Claims about the session, the Room Store and the dispatcher *)

\* C1: disconnect() is idempotent: from any session state a call ends in
\* Disconnected, and a second call, made after or while the first is still
\* unresolved, raises nothing and leaves the session Disconnected with no
\* transport open, no backoff scheduled and no request pending.
C1_DisconnectIdempotent ==
    last.op = "disconnect" =>
        /\ session.state = "Disconnected"
        /\ ~session.transportOpen
        /\ ~session.backoff
        /\ session.pending = {}
        /\ ~last.thrown

\* two disconnect() calls are unresolved at once
C1_Witness ==
    /\ last.op = "disconnect"
    /\ session.pendingDisconnects = 2
    /\ session.state = "Disconnected"

\* C2: the lookup normalizes the identifier: for every client, also one built
\* with an empty initial room list, get(r) and get('#' + r) return the same
\* Room, every room is stored under its '#'-prefixed identifier, and get of a
\* room that is not in the store returns a not-found value.
C2_GetNormalizes ==
    clientState = "constructed" =>
        /\ \A r \in BareNames : channelsGet(r) = channelsGet(<<"#">> \o r)
        /\ \A k \in DOMAIN channels : Slice(k, 0, 1) = <<"#">>
        /\ \A r \in RoomNames :
              Normalize(r) \notin DOMAIN channels => channelsGet(r) = Undefined

DispatchedChat == last.op = "eventEmmiter" /\ last.arg.event = "message"

\* C3: dispatching a chat frame whose room is not in the Room Store does not
\* raise out of the dispatcher.
C3_UnknownRoomDoesNotRaise ==
    (DispatchedChat /\ Normalize(last.arg.args[1].params[1]) \notin DOMAIN channels)
        => ~last.thrown

\* C4: a chat frame for a room of the Room Store emits exactly one 'message'
\* event whose content is the frame's text, whose channel is the frame's
\* Room, whose author is the User named before the '!' of the prefix, and the
\* message is in that room's cache right after the dispatch.
C4_ChatFrameEmitsAndCaches ==
    \A k \in DOMAIN channels :
        (DispatchedChat /\ Normalize(last.arg.args[1].params[1]) = k) =>
            LET frame == last.arg.args[1]
            IN /\ ~last.thrown
               /\ Len(last.emitted) = 1
               /\ last.emitted[1].event = "message"
               /\ last.emitted[1].payload.content = frame.params[2]
               /\ last.emitted[1].payload.channel = k
               /\ \/ IndexOf(frame.prefix, "!") < 0
                  \/ last.emitted[1].payload.author =
                         Slice(frame.prefix, 0, IndexOf(frame.prefix, "!"))
               /\ \E m \in channels[k].messages : m.id = frame.tags.id

\* C5: an event whose name is neither 'message' nor 'ready' is emitted under
\* its own name, exactly once, carrying the arguments it was dispatched with.
C5_OtherEventsPassThrough ==
    (last.op = "eventEmmiter" /\ last.arg.event \notin {"message", "ready"}) =>
        /\ ~last.thrown
        /\ Len(last.emitted) = 1
        /\ last.emitted[1].event = last.arg.event
        /\ last.emitted[1].payload = last.arg.args

\* an unrecognized event was dispatched with a frame
C5_Witness ==
    /\ last.op = "eventEmmiter"
    /\ last.arg.event = "CLEARCHAT"
    /\ Len(last.arg.args) = 1
    /\ Len(last.emitted) = 1

----------------------------------------------------------------------------
(* Claims about the construction *)

\* a non-numeric lifetime, sweep interval or retry limit, a room list that
\* is no array, or an option name that is not a known option
InvalidOptions(o) ==
    \/ NotANumber(o.messageCacheLifetime)
    \/ NotANumber(o.messageSweepInterval)
    \/ NotANumber(o.retryLimit)
    \/ ~IsArray(o.channels)
    \/ o.unknownOption.t # "absent"

\* C9: with an invalid option the constructor throws before the session
\* manager is created and before a sweep timer is started, and no connection
\* is ever attempted for that client.
C9_InvalidOptionsFailFast ==
    /\ (clientState # "new" /\ InvalidOptions(options)) => clientState = "threw"
    /\ clientState = "threw" =>
          /\ ~sleeptCreated
          /\ ~sweepTimer.active
          /\ timerFires = 0
          /\ session = NoSession

\* the constructor threw on a room list that is null, which the validation
\* lets through, and time went on
C9_Witness ==
    /\ clientState = "threw"
    /\ options.channels.t = "null"
    /\ options.messageSweepInterval = Num(1)
    /\ now > MsPerSecond

\* C10: a client whose effective sweep interval is > 0 runs sweepMessages once
\* per interval, and a client whose sweep interval is <= 0 never has
\* sweepMessages run by a timer.
C10_SweepIntervalGovernsTimer ==
    clientState = "constructed" =>
        /\ AtMost(options.messageSweepInterval, 0) =>
              ~sweepTimer.active /\ timerFires = 0
        /\ GreaterThan(options.messageSweepInterval, 0) =>
              /\ sweepTimer.active
              /\ sweepTimer.periodMs = options.messageSweepInterval.v * MsPerSecond
              /\ sweepTimer.nextFire =
                     sweepTimer.start + (timerFires + 1) * sweepTimer.periodMs
              /\ timerFires * sweepTimer.periodMs <= now - sweepTimer.start
              /\ now - TickMs < sweepTimer.nextFire

\* a second interval has elapsed and the timer ran the sweep a second time
C10_Witness ==
    /\ clientState = "constructed"
    /\ last.op = "timerSweep"
    /\ timerFires = 2

----------------------------------------------------------------------------
(* Claims about reconnection and shutdown *)

\* C11: after an unexpected transport close the session makes at most
\* retryLimit reconnection attempts; when the limit is used up it becomes
\* Disconnected, every pending request is rejected with RetriesExhausted and
\* exactly one disconnect event with reason retries-exhausted is emitted;
\* from Disconnected no connection is attempted or opened except by login().
C11_RetryLimitBoundsReconnection ==
    [][/\ clientState' = "constructed" => session'.retries <= options'.retryLimit.v
       /\ (/\ last'.op = "backoffElapsed"
           /\ session.state = "Reconnecting"
           /\ session.retries >= options.retryLimit.v) =>
              /\ session'.state = "Disconnected"
              /\ ~session'.transportOpen
              /\ ~session'.backoff
              /\ session'.pending = {}
              /\ last'.arg = [rejected |-> session.pending, error |-> "RetriesExhausted"]
              /\ last'.emitted = <<[event |-> "disconnect",
                                    payload |-> <<"retries-exhausted">>]>>
       /\ (session.state = "Disconnected" /\ session'.state # "Disconnected") =>
              last'.op = "login"
       /\ (session'.transportOpen /\ ~session.transportOpen) =>
              session.state = "Connecting"]_vars

\* every allowed attempt was made and failed, and a pending join was rejected
C11_Witness ==
    /\ last.op = "backoffElapsed"
    /\ last.thrown
    /\ last.arg.error = "RetriesExhausted"
    /\ last.arg.rejected # {}
    /\ session.retries = options.retryLimit.v
    /\ session.retries > 0
    /\ session.state = "Disconnected"

\* C12: disconnect() is final: called during a reconnect backoff or a connect
\* attempt it cancels that retry, the pending requests are resolved as
\* cancelled without an error, and the transport is not opened again until
\* login() is called.
C12_DisconnectIsFinal ==
    [][/\ (/\ last'.op = "disconnect"
           /\ session'.pendingDisconnects > session.pendingDisconnects) =>
              /\ session'.state = "Disconnected"
              /\ ~session'.transportOpen
              /\ ~session'.backoff
              /\ session'.pending = {}
              /\ last'.arg.cancelled = session.pending
              /\ ~last'.thrown
       /\ (session.shutdown /\ last'.op # "login") =>
              /\ session'.shutdown
              /\ session'.state = "Disconnected"
              /\ ~session'.transportOpen
              /\ ~session'.backoff]_vars

\* disconnect() was called during the backoff delay with a join pending
C12_Witness ==
    /\ last.op = "disconnect"
    /\ last.arg.from = "Reconnecting"
    /\ last.arg.cancelled # {}
    /\ session.state = "Disconnected"

\* C18: once disconnect() has completed, the periodic sweep does not run
\* again.
C18_NoSweepAfterShutdown ==
    [][(session.shutdown /\ session.pendingDisconnects = 0) =>
           timerFires' = timerFires]_vars

----------------------------------------------------------------------------
(* Claims about the room requests *)

\* the join commands for room k that wait in the queue
QueuedJoins(k) ==
    {i \in DOMAIN session.queue : session.queue[i] = CommandOf(<<"join", k>>)}

\* C13: join is single-flight per room under either spelling: a join for a
\* room whose join is pending issues no wire command and attaches to the
\* pending request, a join for a room with none pending issues exactly one,
\* and the echo resolves every waiting caller with the one result.
C13_JoinSingleFlight ==
    [][\A r \in RoomNames :
          LET key == <<"join", Normalize(r)>>
          IN /\ (/\ last'.op = "join"
                 /\ last'.arg.name = r
                 /\ session.state = "Ready"
                 /\ key \in session.pending) =>
                    /\ session'.queue = session.queue
                    /\ session'.pending = session.pending
                    /\ session'.callers[key] = session.callers[key] + 1
                    /\ last'.ret = 0
             /\ (/\ last'.op = "join"
                 /\ last'.arg.name = r
                 /\ session.state = "Ready"
                 /\ key \notin session.pending) =>
                    /\ session'.queue = Append(session.queue, CommandOf(key))
                    /\ session'.pending = session.pending \cup {key}
                    /\ session'.callers[key] = 1
                    /\ last'.ret = 1
             /\ (/\ last'.op = "joinReplied"
                 /\ last'.arg.key = key
                 /\ key \in session.pending) =>
                    /\ last'.arg.resolved = session.callers[key]
                    /\ last'.arg.result = Normalize(r)
                    /\ key \notin session'.pending
             /\ Cardinality(QueuedJoins(Normalize(r))') <= 1]_vars

\* one echo resolved two join calls for the room
C13_Witness ==
    /\ last.op = "joinReplied"
    /\ last.arg.resolved = 2
    /\ last.arg.key[2] \in DOMAIN channels

----------------------------------------------------------------------------
(* Claims about the command queue *)

\* the positions of the raw lines that wait in the queue
RawQueued == {i \in DOMAIN session.queue : session.queue[i].kind = "raw"}

\* the number of raw lines the dispatcher has taken from the queue
RawTaken == session.enqueued - Cardinality(RawQueued)

\* the raw lines wait in the order they were sent, the earliest first
RawInOrder ==
    \A i, j \in RawQueued : i < j => session.queue[i].seq < session.queue[j].seq

\* C15: every transmitted command consumes one token, none is transmitted
\* while the bucket is empty, and before any refill at most the first
\* BucketCapacity = 20 commands of a burst have been taken: the others wait
\* for the refill.
C15_TokenBucketBoundsQueue ==
    [][/\ last'.op \in {"transmit", "transmitFailed"} =>
              /\ session.tokens > 0
              /\ session'.tokens = session.tokens - 1
       /\ session'.tokens \in 0..BucketCapacity
       /\ ~session'.refilled =>
              /\ RawTaken' <= BucketCapacity - session'.tokens
              /\ \A i \in RawQueued' : session'.queue[i].seq > RawTaken'
       /\ last'.op = "refill" => session'.tokens > session.tokens]_vars

\* a burst of 25: the first 20 were taken, the bucket is empty, no refill has
\* happened and commands 21 to 25 wait
C15_Witness ==
    /\ session.enqueued = 25
    /\ ~session.refilled
    /\ session.tokens = 0
    /\ Len(session.queue) = 5
    /\ Head(session.queue).seq = BucketCapacity + 1
    /\ last.op = "transmit"
    /\ last.arg.seq = BucketCapacity

\* C16: commands leave the queue in the order they were enqueued: the
\* dispatcher writes, or drops on a send failure, the head of the queue, a
\* send only appends at the tail, and this also holds for a command that had
\* to wait for a token.
C16_FifoOrder ==
    [][/\ last'.op \in {"transmit", "transmitFailed"} =>
              /\ last'.arg = Head(session.queue)
              /\ session'.queue = Tail(session.queue)
              /\ \A i \in RawQueued' :
                    last'.arg.kind = "raw" => last'.arg.seq < session'.queue[i].seq
       /\ last'.op \in {"wsSend", "join", "leave"} =>
              \/ session'.queue = session.queue
              \/ /\ Len(session'.queue) = Len(session.queue) + 1
                 /\ SubSeq(session'.queue, 1, Len(session.queue)) = session.queue
       /\ RawInOrder']_vars

\* a command that waited for the refill was written while later ones wait
C16_Witness ==
    /\ last.op = "transmit"
    /\ session.refilled
    /\ last.arg.seq > BucketCapacity
    /\ Len(session.queue) > 1

----------------------------------------------------------------------------
(* Claims about the sweep's result *)

\* every cached message with its room
CachedMessages ==
    UNION {{<<k, m>> : m \in channels[k].messages} : k \in DOMAIN channels}

\* C17: sweepMessages(L) with L > 0 returns the number of messages it
\* removed over all rooms, the total cache size before minus the total
\* after; a room without a message cache is skipped and left as it is; the
\* set of rooms and their users do not change.
C17_SweepReturnsRemovedCount ==
    [][(last'.op \in {"sweepMessages", "timerSweep"} /\ last'.arg > 0) =>
           /\ last'.ret = Cardinality(CachedMessages) - Cardinality(CachedMessages')
           /\ CachedMessages' \subseteq CachedMessages
           /\ DOMAIN channels' = DOMAIN channels
           /\ \A k \in DOMAIN channels :
                 /\ channels'[k].users = channels[k].users
                 /\ channels'[k].name = channels[k].name
                 /\ ~channels[k].hasMessages => channels'[k] = channels[k]]_vars

\* a sweep removed one message from each of two rooms, and both rooms
\* still hold their user
C17_Witness ==
    /\ last.op = "sweepMessages"
    /\ last.arg > 0
    /\ last.ret = 2
    /\ last.predEvals = 2
    /\ CachedMessages = {}
    /\ Cardinality(DOMAIN channels) = 2
    /\ \A k \in DOMAIN channels : channels[k].users # {}

====
